---- MODULE Spec2Model ----
(***************************************************************************)
(* State-machine model of the screen recorder: the ScreenRecorder          *)
(* component (recording session, history store, preview, downloads), the   *)
(* useFfmpegConvert hook (WebM -> MP4 conversion job) and the host         *)
(* services they drive (capture streams, MediaRecorder, object URLs, the   *)
(* codec engine's scratch file system).                                    *)
(*                                                                         *)
(* One action is one task of the event loop: a click handler, a host       *)
(* callback or the continuation of an async function after an await.  The  *)
(* React commit that follows a handler (re-render, effect cleanups) is     *)
(* part of the action that caused it.                                      *)
(***************************************************************************)
EXTENDS Naturals, Sequences, FiniteSets

\* ------------------------------------------------------------------ bounds
MaxStreams == 2         \* capture streams acquired in one behaviour
MaxChunks == 2          \* non-empty chunks kept in the chunk buffer
MaxChunkSize == 2       \* largest chunk size delivered by the encoder
MaxConversions == 1     \* converted MP4 blobs produced in one behaviour
MaxRevokes == 2         \* revokeObjectURL calls counted per URL (saturating)
MaxSessions == 3        \* sessions recorded one after the other in SpecStore

Min(a, b) == IF a < b THEN a ELSE b

\* ------------------------------------------------------- mime types, formats
MP4_AVC_AAC == "video/mp4; codecs=\"avc1.42E01E, mp4a.40.2\""
MP4_GENERIC == "video/mp4"
WEBM_VP9 == "video/webm; codecs=vp9"
WEBM_VP8 == "video/webm; codecs=vp8"
WEBM_GENERIC == "video/webm"

\* The mime-type strings the current code passes to MediaRecorder.isTypeSupported.
MimeTypes == {MP4_AVC_AAC, MP4_GENERIC, WEBM_VP9, WEBM_VP8, WEBM_GENERIC}

\* mimeType.includes("mp4") / mimeType.includes("webm") on the strings above.
MimeIncludes(m, s) ==
    CASE s = "mp4" -> m \in {MP4_AVC_AAC, MP4_GENERIC}
      [] s = "webm" -> m \in {WEBM_VP9, WEBM_VP8, WEBM_GENERIC}
      [] OTHER -> FALSE

\* The container of the bytes an encoder (or the codec engine) produces for a
\* mime type it accepted.
BytesExtension(m) == IF m \in {MP4_AVC_AAC, MP4_GENERIC} THEN "mp4" ELSE "webm"

rawFormatOptions ==
    << [value |-> "mp4-h264",     mimeType |-> "video/mp4",              extension |-> "mp4"],
       [value |-> "webm-generic", mimeType |-> "video/webm",             extension |-> "webm"],
       [value |-> "webm-vp9",     mimeType |-> "video/webm; codecs=vp9", extension |-> "webm"],
       [value |-> "webm-vp8",     mimeType |-> "video/webm; codecs=vp8", extension |-> "webm"],
       [value |-> "mkv",          mimeType |-> "video/x-matroska",       extension |-> "mkv"],
       [value |-> "avi",          mimeType |-> "video/avi",              extension |-> "avi"],
       [value |-> "mov",          mimeType |-> "video/quicktime",        extension |-> "mov"],
       [value |-> "wav",          mimeType |-> "audio/wav",              extension |-> "wav"],
       [value |-> "mp3",          mimeType |-> "audio/mp3",              extension |-> "mp3"],
       [value |-> "ogg",          mimeType |-> "audio/ogg",              extension |-> "ogg"] >>

FormatValues == {rawFormatOptions[i].value : i \in DOMAIN rawFormatOptions}

\* Of a format the code reads its extension, whether its value is "mp4-h264" and
\* whether it is audio-only (never its mimeType): one format of each kind.
FormatKinds == {"mp4-h264", "webm-vp9", "mkv", "wav"}

\* Hosts: every type supported, MP4 only.  (A host that supports the WebM types
\* alone behaves as the first one with the mp4-h264 item disabled.)
HostProfiles ==
    { {MP4_AVC_AAC, MP4_GENERIC, WEBM_VP9, WEBM_VP8, WEBM_GENERIC},
      {MP4_AVC_AAC, MP4_GENERIC} }

\* formatOptions.find(option => option.value === v) || formatOptions[0]
FormatOption(v) ==
    IF v \in FormatValues
    THEN rawFormatOptions[CHOOSE i \in DOMAIN rawFormatOptions : rawFormatOptions[i].value = v]
    ELSE rawFormatOptions[1]

\* value.includes('wav') || value.includes('mp3') || value.includes('ogg')
IsAudioOnlyValue(v) == v \in {"wav", "mp3", "ogg"}

\* ------------------------------------------------------------------- state
VARIABLES
    supported,          \* host: the mime types MediaRecorder.isTypeSupported accepts
    streams,            \* host: per acquired capture stream, how often its tracks were stopped
    recorders,          \* host: the MediaRecorder instances with what their callbacks captured
    blobs,              \* host: per object URL, the blob behind it, its revocations
                        \*       and, of a converted MP4, the URL it was fetched from
    FS,                 \* codec engine: the names present in its scratch file system
    engineLoaded,       \* codec engine: ffmpeg.isLoaded()
    ffmpegRef,          \* hook: ffmpegRef.current is set
    state,              \* hook: {loading, progress, error, outputUrl}
    engineCalls,        \* codec engine: how often createFFmpeg and load() were called
    overlap,            \* hook: where a second, overlapping convertWebmToMp4 call awaits
    recording, paused, stream, mediaRecorder, recordedVideoUrl, selectedFormat,
    recordings, convertingMp4, convertedMp4Url,
    recordingChunks,    \* recordingChunks.current: sizes of the buffered chunks
    mounted,            \* the component is mounted
    pendingStarts,      \* startRecording calls awaiting getDisplayMedia (captured format)
    conv,               \* the handleConvertToMp4 call in flight: where it awaits
    mp4Duration,        \* <<seconds>> detected for the converted MP4, <<>> for null
    probes,             \* host: URLs of the video elements whose metadata is awaited
    last                \* what the latest task did that a user or caller can observe

hostVars == <<supported, streams, recorders, blobs, FS, engineLoaded>>
hookVars == <<ffmpegRef, state, engineCalls, overlap>>
sessionVars == <<recording, paused, stream, mediaRecorder, recordingChunks, pendingStarts>>
storeVars == <<recordedVideoUrl, recordings>>
convVars == <<convertingMp4, convertedMp4Url, conv, mp4Duration, probes>>
vars == <<hostVars, hookVars, sessionVars, storeVars, convVars, selectedFormat, mounted, last>>

\* useState initial value of the hook, also what cleanUp resets it to.
InitialHookState == [loading |-> FALSE, progress |-> 0, error |-> FALSE, outputUrl |-> 0]

NoObservation ==
    [op |-> "none", enc |-> "none", threw |-> FALSE, toasts |-> {},
     mime |-> "none", requested |-> "none", fileExt |-> "none", bytesExt |-> "none",
     delivered |-> 0, bytes |-> 0, id |-> 0, progress |-> 0]

Observe(op, enc, threw, toasts) ==
    [NoObservation EXCEPT !.op = op, !.enc = enc, !.threw = threw, !.toasts = toasts]

IdleConv == [pc |-> "idle", url |-> 0, size |-> 0, progress |-> 0]

StartWith(format) ==
    /\ streams = <<>>
    /\ recorders = <<>>
    /\ blobs = <<>>
    /\ FS = {}
    /\ engineLoaded = FALSE
    /\ ffmpegRef = FALSE
    /\ engineCalls = [create |-> 0, load |-> 0]
    /\ overlap = "idle"
    /\ state = InitialHookState
    /\ recording = FALSE
    /\ paused = FALSE
    /\ stream = 0
    /\ mediaRecorder = 0
    /\ recordedVideoUrl = 0
    /\ selectedFormat = format
    /\ recordings = <<>>
    /\ convertingMp4 = FALSE
    /\ convertedMp4Url = 0
    /\ mp4Duration = <<>>
    /\ probes = {}
    /\ recordingChunks = <<>>
    /\ mounted = TRUE
    /\ pendingStarts = <<>>
    /\ conv = IdleConv
    /\ last = NoObservation

Start == StartWith("webm-vp9")

Init == supported \in HostProfiles /\ Start

InitFormats == supported \in SUBSET MimeTypes /\ Start

\* ------------------------------------------------------- object URLs, effects
RECURSIVE SumSeq(_)
SumSeq(s) == IF s = <<>> THEN 0 ELSE Head(s) + SumSeq(Tail(s))

RemoveAt(s, i) == SubSeq(s, 1, i - 1) \o SubSeq(s, i + 1, Len(s))

\* URL.revokeObjectURL(u); 0 stands for null (the callers test for it).
Revoke(bl, u) ==
    IF u = 0 THEN bl ELSE [bl EXCEPT ![u].revokes = Min(@ + 1, MaxRevokes)]

RECURSIVE RevokeEach(_, _)
RevokeEach(bl, recs) ==
    IF recs = <<>> THEN bl ELSE RevokeEach(Revoke(bl, Head(recs).url), Tail(recs))

IsRevoked(u) == blobs[u].revokes > 0

\* An effect on [recordedVideoUrl, recordings] that returns no cleanup.
ObjectUrlCleanupMissing(bl) == bl

\* Cleanup of the effect on [recordedVideoUrl, recordings]: it runs with the
\* values of the render that installed it, i.e. those before the change.
ObjectUrlCleanup(bl) == RevokeEach(Revoke(bl, recordedVideoUrl), recordings)

\* Cleanup of the effect on [convertedMp4Url, cleanUpFfmpeg].  cleanUpFfmpeg is a
\* new function on every render, so this cleanup runs on every re-render; it
\* calls the hook's cleanUp, which sets the hook state to a fresh object and so
\* causes the next re-render.  The renders that follow a handler therefore
\* revoke the previous convertedMp4Url, the outputUrl the handler left in the
\* hook state, and then the current convertedMp4Url again and again.
ConvertedUrlCleanup(bl, newConverted, hookUrl) ==
    LET b1 == Revoke(bl, convertedMp4Url)
        b2 == Revoke(b1, hookUrl)
    IN IF newConverted = 0 THEN b2
       ELSE [b2 EXCEPT ![newConverted].revokes = MaxRevokes]

\* The commit after a handler that changed React state.
Rerender(bl, depsChanged, newConverted, hookUrl) ==
    ConvertedUrlCleanup(IF depsChanged THEN ObjectUrlCleanup(bl) ELSE bl,
                        newConverted, hookUrl)

\* ------------------------------------------------------------- negotiation
\* const trueMp4Supported = () => false
trueMp4Supported == FALSE

\* FormatSettings: mp4Supported, which disables the mp4-h264 option.
mp4Supported == MP4_AVC_AAC \in supported \/ MP4_GENERIC \in supported

\* startRecording: "Always use WebM or fallback".
ChooseMimeType ==
    IF WEBM_VP9 \in supported THEN WEBM_VP9
    ELSE IF WEBM_VP8 \in supported THEN WEBM_VP8
    ELSE WEBM_GENERIC

\* A createRecordingEntry that labels the entry with the selected format's
\* extension instead of the one derived from the encoder's mime type.
FileExtensionRequested(mimeType, formatValue) == FormatOption(formatValue).extension

\* createRecordingEntry: the extension stored in Recording.format.
FileExtension(mimeType, formatValue) ==
    LET realMp4 == MimeIncludes(mimeType, "mp4")
        byMime == IF realMp4 THEN "mp4" ELSE "webm"
    IN IF formatValue = "mp4-h264" /\ ~realMp4 THEN "webm" ELSE byMime

\* --------------------------------------------------------- recording session
\* onFormatChange={setSelectedFormat}; the Select is disabled while recording
\* and its mp4-h264 item is disabled unless mp4Supported.
SelectFormat(v) ==
    /\ mounted
    /\ ~recording
    /\ v # selectedFormat
    /\ v = "mp4-h264" => mp4Supported
    /\ selectedFormat' = v
    /\ state' = InitialHookState
    /\ blobs' = Rerender(blobs, FALSE, convertedMp4Url, state.outputUrl)
    /\ last' = Observe("selectFormat", "none", FALSE, {})
    /\ UNCHANGED <<supported, streams, recorders, FS, engineLoaded, ffmpegRef, engineCalls,
                   overlap,
                   sessionVars, storeVars, convVars, mounted>>

\* The Start button is rendered while !recording.  startRecording reads the
\* selected format and awaits getDisplayMedia.
StartClickWithin(n) ==
    /\ mounted
    /\ ~recording
    /\ Len(streams) + Len(pendingStarts) < n
    /\ pendingStarts' = Append(pendingStarts, selectedFormat)
    /\ last' = Observe("startClick", "none", FALSE, {})
    /\ UNCHANGED <<hostVars, hookVars, recording, paused, stream, mediaRecorder,
                   recordingChunks, storeVars, convVars, selectedFormat, mounted>>

StartClick == StartClickWithin(MaxStreams)

\* getDisplayMedia rejects (permission denied or capture unavailable): the catch
\* block of startRecording reports it.
AcquireFailed(i) ==
    /\ mounted
    /\ i \in DOMAIN pendingStarts
    /\ pendingStarts' = RemoveAt(pendingStarts, i)
    /\ last' = Observe("startFailed", "none", FALSE, {"Failed to start recording"})
    /\ UNCHANGED <<hostVars, hookVars, recording, paused, stream, mediaRecorder,
                   recordingChunks, storeVars, convVars, selectedFormat, mounted>>

\* What startRecording does in its catch block with the stream it acquired.
ReleaseOnStartFailure(strs, sid) == strs

\* getDisplayMedia resolves: the rest of startRecording runs to its end.
\* new MediaRecorder throws NotSupportedError for a mime type the host does not
\* support; the catch block reports it.
Acquired(i) ==
    /\ mounted
    /\ i \in DOMAIN pendingStarts
    /\ LET formatValue == pendingStarts[i]
           sid == Len(streams) + 1
           mimeType == ChooseMimeType
           mp4Warning == IF formatValue = "mp4-h264"
                         THEN {"MP4 direct recording is no longer available"} ELSE {}
       IN /\ pendingStarts' = RemoveAt(pendingStarts, i)
          /\ stream' = sid
          /\ state' = InitialHookState
          /\ blobs' = Rerender(blobs, FALSE, convertedMp4Url, state.outputUrl)
          /\ IF mimeType \in supported
             THEN /\ streams' = Append(streams, 0)
                  /\ recorders' = Append(recorders,
                        [state |-> "recording", stream |-> sid, mimeType |-> mimeType,
                         formatValue |-> formatValue, stopQueued |-> FALSE,
                         delivered |-> 0])
                  /\ mediaRecorder' = Len(recorders) + 1
                  /\ recordingChunks' = <<>>
                  /\ recording' = TRUE
                  /\ last' = [Observe("started", "start", FALSE,
                                      mp4Warning \cup {"Recording started in WebM format"})
                                EXCEPT !.mime = mimeType, !.requested = formatValue]
             ELSE /\ streams' = ReleaseOnStartFailure(Append(streams, 0), sid)
                  /\ last' = [Observe("startFailed", "new", TRUE,
                                      mp4Warning \cup {"Failed to start recording"})
                                EXCEPT !.mime = mimeType, !.requested = formatValue]
                  /\ UNCHANGED <<recorders, mediaRecorder, recordingChunks, recording>>
    /\ UNCHANGED <<supported, FS, engineLoaded, ffmpegRef, engineCalls, overlap, paused,
                   storeVars,
                   convVars, selectedFormat, mounted>>

\* recorder.ondataavailable for a timeslice of a recorder that is recording.
\* delivered is the number of bytes this recorder has handed to its callback.
DataAvailable(r, size) ==
    /\ mounted
    /\ r \in DOMAIN recorders
    /\ recorders[r].state = "recording"
    /\ size \in 0..MaxChunkSize
    /\ size > 0 => Len(recordingChunks) < MaxChunks
    /\ recordingChunks' = IF size > 0 THEN Append(recordingChunks, size)
                                      ELSE recordingChunks
    /\ recorders' = [recorders EXCEPT ![r].delivered = @ + size]
    /\ last' = Observe("chunk", "none", FALSE, {})
    /\ UNCHANGED <<supported, streams, blobs, FS, engineLoaded, hookVars, recording,
                   paused, stream, mediaRecorder, pendingStarts, storeVars, convVars,
                   selectedFormat, mounted>>

\* MediaRecorder.stop(): an inactive recorder ignores it; otherwise the recorder
\* becomes inactive and the task that fires dataavailable and stop is queued.
EncoderStop(recs, r) ==
    IF recs[r].state = "inactive" THEN recs
    ELSE [recs EXCEPT ![r].state = "inactive", ![r].stopQueued = TRUE]

\* The Stop button is rendered while recording.
stopRecording ==
    /\ mounted
    /\ recording
    /\ IF mediaRecorder # 0 /\ recording
       THEN /\ recorders' = EncoderStop(recorders, mediaRecorder)
            /\ last' = Observe("stop", "stop", FALSE, {"Processing your recording..."})
       ELSE /\ last' = Observe("stop", "none", FALSE, {})
            /\ UNCHANGED recorders
    /\ UNCHANGED <<supported, streams, blobs, FS, engineLoaded, hookVars, sessionVars,
                   storeVars, convVars, selectedFormat, mounted>>

\* The host ends the capture (the user stops sharing in the browser's own UI):
\* all tracks end and the recorder stops by itself.
CaptureEnded(r) ==
    /\ mounted
    /\ r \in DOMAIN recorders
    /\ recorders[r].state # "inactive"
    /\ recorders' = EncoderStop(recorders, r)
    /\ last' = Observe("captureEnded", "none", FALSE, {})
    /\ UNCHANGED <<supported, streams, blobs, FS, engineLoaded, hookVars, sessionVars,
                   storeVars, convVars, selectedFormat, mounted>>

\* The Pause button is rendered while recording && !paused.  MediaRecorder.pause()
\* throws InvalidStateError on an inactive recorder.
pauseRecording ==
    /\ mounted
    /\ recording /\ ~paused
    /\ IF mediaRecorder # 0 /\ recording /\ ~paused
       THEN IF recorders[mediaRecorder].state = "inactive"
            THEN /\ last' = Observe("pause", "pause", TRUE, {})
                 /\ UNCHANGED <<recorders, paused, state, blobs>>
            ELSE /\ recorders' = [recorders EXCEPT ![mediaRecorder].state = "paused"]
                 /\ paused' = TRUE
                 /\ state' = InitialHookState
                 /\ blobs' = Rerender(blobs, FALSE, convertedMp4Url, state.outputUrl)
                 /\ last' = Observe("pause", "pause", FALSE, {"Recording paused"})
       ELSE /\ last' = Observe("pause", "none", FALSE, {})
            /\ UNCHANGED <<recorders, paused, state, blobs>>
    /\ UNCHANGED <<supported, streams, FS, engineLoaded, ffmpegRef, engineCalls, overlap,
                   recording, stream,
                   mediaRecorder, recordingChunks, pendingStarts, storeVars, convVars,
                   selectedFormat, mounted>>

\* The Resume button is rendered while recording && paused.
resumeRecording ==
    /\ mounted
    /\ recording /\ paused
    /\ IF mediaRecorder # 0 /\ recording /\ paused
       THEN IF recorders[mediaRecorder].state = "inactive"
            THEN /\ last' = Observe("resume", "resume", TRUE, {})
                 /\ UNCHANGED <<recorders, paused, state, blobs>>
            ELSE /\ recorders' = [recorders EXCEPT ![mediaRecorder].state = "recording"]
                 /\ paused' = FALSE
                 /\ state' = InitialHookState
                 /\ blobs' = Rerender(blobs, FALSE, convertedMp4Url, state.outputUrl)
                 /\ last' = Observe("resume", "resume", FALSE, {"Recording resumed"})
       ELSE /\ last' = Observe("resume", "none", FALSE, {})
            /\ UNCHANGED <<recorders, paused, state, blobs>>
    /\ UNCHANGED <<supported, streams, FS, engineLoaded, ffmpegRef, engineCalls, overlap,
                   recording, stream,
                   mediaRecorder, recordingChunks, pendingStarts, storeVars, convVars,
                   selectedFormat, mounted>>

\* displayStream.getTracks().forEach(track => track.stop())
StopTracks(strs, sid) == [strs EXCEPT ![sid] = @ + 1]

\* createRecordingEntry: the Recording it builds for a non-empty blob.
NewRecording(url, mimeType, formatValue) ==
    [id |-> url, url |-> url, format |-> FileExtension(mimeType, formatValue)]

\* A recorder whose stop event was delivered: it is never started again, so
\* none of its callbacks runs any more and what they captured is dropped.
Finished(rec) ==
    [rec EXCEPT !.stopQueued = FALSE, !.mimeType = "none", !.formatValue = "none",
                !.delivered = 0]

\* setRecordings(prev => [...prev, recording])
AddRecordingLast(recs, rec) == Append(recs, rec)

\* setRecordings(prev => [recording, ...prev])
AddRecording(recs, rec) == <<rec>> \o recs

\* An onstop that leaves the paused flag as it is.
FlagsAfterStopKeepingPaused == [recording |-> FALSE, paused |-> paused, stream |-> 0]

\* recorder.onstop: setRecording(false); setPaused(false); setStream(null)
FlagsAfterStop == [recording |-> FALSE, paused |-> FALSE, stream |-> 0]

\* The task queued by stop(): the final dataavailable, then recorder.onstop.
OnStop(r, size) ==
    /\ mounted
    /\ r \in DOMAIN recorders
    /\ recorders[r].stopQueued
    /\ size \in 0..MaxChunkSize
    /\ size > 0 => Len(recordingChunks) < MaxChunks
    /\ LET rec == recorders[r]
           chunks == IF size > 0 THEN Append(recordingChunks, size) ELSE recordingChunks
           blobSize == SumSeq(chunks)
           url == Len(blobs) + 1
           added == Len(chunks) > 0 /\ blobSize # 0
           created == Append(blobs, [mime |-> rec.mimeType, size |-> blobSize,
                                     revokes |-> 0, source |-> 0])
       IN /\ recorders' = [recorders EXCEPT ![r] = Finished(rec)]
          /\ streams' = StopTracks(streams, rec.stream)
          /\ recordingChunks' = chunks
          /\ IF added
             THEN /\ recordings' = AddRecording(recordings,
                                         NewRecording(url, rec.mimeType, rec.formatValue))
                  /\ recordedVideoUrl' = url
                  /\ blobs' = Rerender(created, TRUE, convertedMp4Url, state.outputUrl)
                  /\ last' = [Observe("finalized", "none", FALSE,
                        (IF rec.formatValue = "mp4-h264" /\ ~MimeIncludes(rec.mimeType, "mp4")
                         THEN {"Recording could not be saved as MP4"} ELSE {})
                        \cup {"Recording ready for preview!"})
                                EXCEPT !.mime = rec.mimeType, !.requested = rec.formatValue,
                                       !.delivered = rec.delivered + size,
                                       !.bytes = blobSize]
             ELSE /\ blobs' = Rerender(blobs, FALSE, convertedMp4Url, state.outputUrl)
                  /\ last' = [Observe("finalized", "none", FALSE,
                                      {"No recording data available"})
                                EXCEPT !.delivered = rec.delivered + size]
                  /\ UNCHANGED storeVars
          /\ recording' = FlagsAfterStop.recording
          /\ paused' = FlagsAfterStop.paused
          /\ stream' = FlagsAfterStop.stream
          /\ state' = InitialHookState
    /\ UNCHANGED <<supported, FS, engineLoaded, ffmpegRef, engineCalls, overlap,
                   mediaRecorder, pendingStarts,
                   convVars, selectedFormat, mounted>>

\* ------------------------------------------------------------ history store
RECURSIVE FilterOutId(_, _)
FilterOutId(recs, id) ==
    IF recs = <<>> THEN <<>>
    ELSE IF Head(recs).id = id THEN FilterOutId(Tail(recs), id)
    ELSE <<Head(recs)>> \o FilterOutId(Tail(recs), id)

\* prev.find(r => r.id === id): the index of the first recording with that id,
\* 0 when there is none.
FindId(recs, id) ==
    IF \E i \in DOMAIN recs : recs[i].id = id
    THEN CHOOSE i \in DOMAIN recs : recs[i].id = id /\ \A j \in 1..(i - 1) : recs[j].id # id
    ELSE 0

\* deleteRecording(id): the updater revokes the URL of the recording it finds
\* and returns prev.filter(...), always a new array, so the effect on
\* [recordedVideoUrl, recordings] is cleaned up whether or not id was found.
deleteRecordingId(id) ==
    /\ mounted
    /\ LET found == FindId(recordings, id)
           revoked == IF found # 0 THEN Revoke(blobs, recordings[found].url) ELSE blobs
       IN /\ recordings' = FilterOutId(recordings, id)
          /\ blobs' = Rerender(revoked, TRUE, convertedMp4Url, state.outputUrl)
    /\ state' = InitialHookState
    /\ last' = [Observe("delete", "none", FALSE, {"Recording deleted"}) EXCEPT !.id = id]
    /\ UNCHANGED <<supported, streams, recorders, FS, engineLoaded, ffmpegRef, engineCalls,
                   overlap,
                   sessionVars, recordedVideoUrl, convVars, selectedFormat, mounted>>

\* The Delete button of history item i: deleteRecording(recordings[i].id).
deleteRecording(i) ==
    /\ i \in DOMAIN recordings
    /\ deleteRecordingId(recordings[i].id)

\* The Preview button of history item i: previewRecording(recordings[i]).
previewRecording(i) ==
    /\ mounted
    /\ i \in DOMAIN recordings
    /\ recordedVideoUrl' = recordings[i].url
    /\ blobs' = Rerender(blobs, recordings[i].url # recordedVideoUrl,
                         convertedMp4Url, state.outputUrl)
    /\ state' = InitialHookState
    /\ last' = Observe("preview", "none", FALSE, {})
    /\ UNCHANGED <<supported, streams, recorders, FS, engineLoaded, ffmpegRef, engineCalls,
                   overlap,
                   sessionVars, recordings, convVars, selectedFormat, mounted>>

\* downloadRecording: the extension of the file name it offers.
DownloadExtension(format) ==
    IF format = "mp4" /\ ~trueMp4Supported THEN "webm" ELSE format

\* downloadRecording(recording): fetches recording.url (which fails for a
\* revoked URL) and offers the bytes under fileName.
DownloadObservation(url, format) ==
    IF IsRevoked(url)
    THEN Observe("download", "none", FALSE, {"There was an error when preparing your video"})
    ELSE IF blobs[url].size = 0
    THEN Observe("download", "none", FALSE, {"Cannot download video"})
    ELSE [Observe("download", "none", FALSE, {"downloaded successfully"})
            EXCEPT !.fileExt = DownloadExtension(format),
                   !.bytesExt = BytesExtension(blobs[url].mime)]

\* The Download button of history item i.
DownloadFromHistory(i) ==
    /\ mounted
    /\ i \in DOMAIN recordings
    /\ last' = DownloadObservation(recordings[i].url, recordings[i].format)
    /\ UNCHANGED <<hostVars, hookVars, sessionVars, storeVars, convVars,
                   selectedFormat, mounted>>

\* The Download button of the preview tab, rendered while recordedVideoUrl is set:
\* downloadRecording({url: recordedVideoUrl, format: getSelectedFormatOption().extension}).
DownloadFromPreview ==
    /\ mounted
    /\ recordedVideoUrl # 0
    /\ last' = DownloadObservation(recordedVideoUrl, FormatOption(selectedFormat).extension)
    /\ UNCHANGED <<hostVars, hookVars, sessionVars, storeVars, convVars,
                   selectedFormat, mounted>>

\* --------------------------------------------------------------- conversion
\* A Convert button disabled by the hook's loading flag alone.
ConvertDisabledLoadingOnly == state.loading

\* disabled={convertingMp4 || ffmpegLoading} on the Convert to MP4 button.
ConvertDisabled == convertingMp4 \/ state.loading

Mp4Blobs == {u \in DOMAIN blobs : blobs[u].mime = MP4_GENERIC}

\* A click on the Convert to MP4 button (rendered in the preview of a video
\* format).  A disabled button dispatches nothing; otherwise handleConvertToMp4
\* runs up to its first await, the fetch of recordedVideoUrl.
ConvertClick ==
    /\ mounted
    /\ recordedVideoUrl # 0
    /\ ~IsAudioOnlyValue(FormatOption(selectedFormat).value)
    /\ IF ConvertDisabled
       THEN /\ last' = Observe("convertRejected", "none", FALSE, {})
            /\ UNCHANGED <<convVars, state, blobs>>
       ELSE /\ Cardinality(Mp4Blobs) < MaxConversions
            /\ convertingMp4' = TRUE
            /\ conv' = [pc |-> "fetch", url |-> recordedVideoUrl, size |-> 0,
                        progress |-> 0]
            /\ state' = InitialHookState
            /\ blobs' = Rerender(Revoke(blobs, state.outputUrl), FALSE,
                                 convertedMp4Url, 0)
            /\ last' = Observe("convert", "none", FALSE, {"Converting to MP4..."})
            /\ UNCHANGED <<convertedMp4Url, mp4Duration, probes>>
    /\ UNCHANGED <<supported, streams, recorders, FS, engineLoaded, ffmpegRef, engineCalls,
                   overlap,
                   sessionVars, storeVars, selectedFormat, mounted>>

\* convertWebmToMp4(inputBlob) up to its first await, for a blob of the given
\* size: it sets the loading state and awaits the import of the engine module.
convertWebmToMp4(size) ==
    /\ conv' = [conv EXCEPT !.pc = "import", !.size = size]
    /\ state' = InitialHookState
    /\ blobs' = Rerender(blobs, FALSE, convertedMp4Url, 0)
    /\ last' = Observe("convertLoading", "none", FALSE, {})

\* fetchBlobFromUrl settles.  A rejected fetch (revoked URL) ends
\* handleConvertToMp4 with an unhandled rejection.  Otherwise convertWebmToMp4
\* is called with the blob behind the URL.
FetchSettled ==
    /\ mounted
    /\ conv.pc = "fetch"
    /\ IF IsRevoked(conv.url)
       THEN /\ conv' = [conv EXCEPT !.pc = "dead"]
            /\ last' = Observe("convertDied", "none", TRUE, {})
            /\ UNCHANGED <<state, blobs>>
       ELSE convertWebmToMp4(blobs[conv.url].size)
    /\ UNCHANGED <<supported, streams, recorders, FS, engineLoaded, ffmpegRef, engineCalls,
                   overlap,
                   sessionVars, storeVars, convertingMp4, convertedMp4Url, mp4Duration, probes,
                   selectedFormat, mounted>>

\* ffmpeg.FS('writeFile', 'input.webm', ...)
WriteInput(fs) == fs \cup {"input.webm"}

\* A failure path that also releases the URL of the source it was given.
ConvertFailedEndReleasingSource ==
    /\ convertingMp4' = FALSE
    /\ conv' = IdleConv
    /\ state' = InitialHookState
    /\ blobs' = Rerender(Revoke(blobs, conv.url), FALSE, convertedMp4Url, 0)
    /\ UNCHANGED <<convertedMp4Url, mp4Duration, probes>>

\* handleConvertToMp4 after convertWebmToMp4 returned null.
ConvertFailedEnd ==
    /\ convertingMp4' = FALSE
    /\ conv' = IdleConv
    /\ state' = InitialHookState
    /\ blobs' = Rerender(blobs, FALSE, convertedMp4Url, 0)
    /\ UNCHANGED <<convertedMp4Url, mp4Duration, probes>>

\* if (!ffmpegRef.current) createFFmpeg(...); if (!ffmpeg.isLoaded()) load():
\* the calls made on the engine, counted.
EngineCalled(calls, refSet, loaded) ==
    [create |-> calls.create + (IF refSet THEN 0 ELSE 1),
     load |-> calls.load + (IF loaded THEN 0 ELSE 1)]

\* import("@ffmpeg/ffmpeg") settles: rejected, resolved without createFFmpeg or
\* fetchFile, or resolved.  Then the engine is created if needed and, when it is
\* not loaded yet, its load() awaited; else the input is written and run awaited.
ImportSettled(outcome) ==
    /\ mounted
    /\ conv.pc = "import"
    /\ outcome \in {"rejected", "noMethods", "ok"}
    /\ CASE outcome = "rejected" ->
              /\ conv' = [conv EXCEPT !.pc = "dead"]
              /\ last' = Observe("engineFailed", "none", TRUE, {})
              /\ UNCHANGED <<state, blobs, convertingMp4, convertedMp4Url, mp4Duration, probes,
                             ffmpegRef, engineCalls, overlap, FS>>
         [] outcome = "noMethods" ->
              /\ ConvertFailedEnd
              /\ last' = Observe("convertFailed", "none", FALSE, {"MP4 conversion failed"})
              /\ UNCHANGED <<ffmpegRef, engineCalls, overlap, FS>>
         [] outcome = "ok" ->
              /\ ffmpegRef' = TRUE
              /\ engineCalls' = EngineCalled(engineCalls, ffmpegRef, engineLoaded)
              /\ conv' = [conv EXCEPT !.pc = IF engineLoaded THEN "run" ELSE "load"]
              /\ FS' = IF engineLoaded THEN WriteInput(FS) ELSE FS
              /\ last' = Observe("convertEngine", "none", FALSE, {})
              /\ UNCHANGED <<state, blobs, convertingMp4, convertedMp4Url, mp4Duration,
                             probes, overlap>>
    /\ UNCHANGED <<supported, streams, recorders, engineLoaded, sessionVars, storeVars,
                   selectedFormat, mounted>>

\* ffmpeg.load() settles; a rejection is outside the try block.
LoadSettled(ok) ==
    /\ mounted
    /\ conv.pc = "load"
    /\ ok \in BOOLEAN
    /\ IF ok
       THEN /\ engineLoaded' = TRUE
            /\ FS' = WriteInput(FS)
            /\ conv' = [conv EXCEPT !.pc = "run"]
            /\ last' = Observe("convertRunning", "none", FALSE, {})
       ELSE /\ conv' = [conv EXCEPT !.pc = "dead"]
            /\ last' = Observe("engineFailed", "none", TRUE, {})
            /\ UNCHANGED <<engineLoaded, FS>>
    /\ UNCHANGED <<supported, streams, recorders, blobs, hookVars, sessionVars,
                   storeVars, convertingMp4, convertedMp4Url, mp4Duration, probes,
                   selectedFormat, mounted>>

\* The catch block of convertWebmToMp4: what it does to the scratch entries.
ScratchAfterFailure(fs) == fs

\* The end of the try block of convertWebmToMp4: the two unlink calls.
ScratchAfterSuccess(fs) == fs \ {"input.webm", "output.mp4"}

\* ffmpeg.run settles.  "ok": output.mp4 is read back, its URL created, both
\* scratch entries unlinked and the URL displayed.  "failed": run rejected or
\* output.mp4 cannot be read; "failedPartial": the same with a partial
\* output.mp4 left by the engine.
RunSettled(outcome) ==
    /\ mounted
    /\ conv.pc = "run"
    /\ outcome \in {"ok", "failed", "failedPartial"}
    /\ IF outcome = "ok"
       THEN LET url == Len(blobs) + 1
                created == Append(blobs, [mime |-> MP4_GENERIC,
                                          size |-> conv.size,
                                          revokes |-> 0, source |-> conv.url])
            IN /\ FS' = ScratchAfterSuccess(FS \cup {"output.mp4"})
               /\ convertedMp4Url' = url
               /\ probes' = probes \cup {url}
               /\ convertingMp4' = FALSE
               /\ conv' = IdleConv
               /\ state' = InitialHookState
               /\ blobs' = Rerender(created, FALSE, url, url)
               /\ last' = [Observe("converted", "none", FALSE, {"Conversion complete!"})
                             EXCEPT !.progress = 100]
               /\ UNCHANGED mp4Duration
       ELSE /\ FS' = ScratchAfterFailure(
                        IF outcome = "failedPartial" THEN FS \cup {"output.mp4"} ELSE FS)
            /\ ConvertFailedEnd
            /\ last' = Observe("convertFailed", "none", FALSE, {"MP4 conversion failed"})
    /\ UNCHANGED <<supported, streams, recorders, engineLoaded, ffmpegRef, engineCalls,
                   overlap, sessionVars,
                   storeVars, selectedFormat, mounted>>

\* The ratios the engine hands to the setProgress callback, in thousandths.
RatioThousandths == {0, 404, 1500}

\* Math.round(ratio * 100) for a ratio given in thousandths.
RoundPercent(r) == (r + 5) \div 10

\* The callback registered with ffmpeg.setProgress, called during run.
\* conv.progress is the progress value the job's setState calls stored last.
ProgressCallback(r) ==
    /\ mounted
    /\ conv.pc = "run"
    /\ r \in RatioThousandths
    /\ conv' = [conv EXCEPT !.progress = RoundPercent(r)]
    /\ state' = InitialHookState
    /\ blobs' = Rerender(blobs, FALSE, convertedMp4Url, 0)
    /\ last' = [Observe("progress", "none", FALSE, {}) EXCEPT !.progress = RoundPercent(r)]
    /\ UNCHANGED <<supported, streams, recorders, FS, engineLoaded, ffmpegRef, engineCalls,
                   overlap,
                   sessionVars, storeVars, convertingMp4, convertedMp4Url, mp4Duration, probes,
                   selectedFormat, mounted>>

\* The durations, in whole seconds, a video element reports for an MP4.
Durations == {0, 1}

\* What a video element's event hands to setMp4Duration: <<v.duration>> from
\* onloadedmetadata, <<>> (null) from onerror.
MetadataOutcomes == {<<>>} \cup {<<d>> : d \in Durations}

\* The video element the effect on [convertedMp4Url] created for url fires
\* loadedmetadata (with its duration) or error.  The URL is revoked by a later
\* render than the one that assigned it to the element, so the element may
\* have resolved it in time or not: either event can fire.
MetadataSettled(url, outcome) ==
    /\ mounted
    /\ url \in probes
    /\ outcome \in MetadataOutcomes
    /\ probes' = probes \ {url}
    /\ mp4Duration' = outcome
    /\ state' = InitialHookState
    /\ blobs' = Rerender(blobs, FALSE, convertedMp4Url, state.outputUrl)
    /\ last' = Observe("metadata", "none", FALSE, {})
    /\ UNCHANGED <<supported, streams, recorders, FS, engineLoaded, ffmpegRef,
                   engineCalls, overlap, sessionVars, storeVars, convertingMp4,
                   convertedMp4Url, conv, selectedFormat, mounted>>

\* {(mp4Duration !== null && mp4Duration < 1) && ...} inside {convertedMp4Url && ...}
DurationNoticeShown ==
    convertedMp4Url # 0 /\ mp4Duration # <<>> /\ mp4Duration[1] < 1

\* isAudioOnlyFormat(): of the selected format, not of the recording previewed.
isAudioOnlyFormat == IsAudioOnlyValue(FormatOption(selectedFormat).value)

\* The panel with the converted MP4's player and its Download MP4 button.
ConvertedPanelShown ==
    recordedVideoUrl # 0 /\ ~isAudioOnlyFormat /\ convertedMp4Url # 0

\* ----------------------------------------------------------------- teardown
\* What the component's effect cleanups do to the capture streams at unmount.
StreamsAfterUnmount(strs) == strs

\* The component is unmounted: every effect cleanup runs once.
Unmount ==
    /\ mounted
    /\ mounted' = FALSE
    /\ blobs' = Revoke(Revoke(ObjectUrlCleanup(blobs), convertedMp4Url), state.outputUrl)
    /\ streams' = StreamsAfterUnmount(streams)
    /\ last' = Observe("unmount", "none", FALSE, {})
    /\ UNCHANGED <<supported, recorders, FS, engineLoaded, hookVars, sessionVars,
                   storeVars, convVars, selectedFormat>>

Next ==
    \/ \E v \in FormatKinds : SelectFormat(v)
    \/ StartClick
    \/ \E i \in 1..MaxStreams : AcquireFailed(i)
    \/ \E i \in 1..MaxStreams : Acquired(i)
    \/ \E r \in 1..MaxStreams, size \in 0..MaxChunkSize : DataAvailable(r, size)
    \/ stopRecording
    \/ \E r \in 1..MaxStreams : CaptureEnded(r)
    \/ pauseRecording
    \/ resumeRecording
    \/ \E r \in 1..MaxStreams, size \in 0..MaxChunkSize : OnStop(r, size)
    \/ \E i \in 1..MaxStreams : deleteRecording(i)
    \/ \E i \in 1..MaxStreams : previewRecording(i)
    \/ \E i \in 1..MaxStreams : DownloadFromHistory(i)
    \/ DownloadFromPreview
    \/ ConvertClick
    \/ FetchSettled
    \/ \E outcome \in {"rejected", "noMethods", "ok"} : ImportSettled(outcome)
    \/ \E ok \in BOOLEAN : LoadSettled(ok)
    \/ \E outcome \in {"ok", "failed", "failedPartial"} : RunSettled(outcome)
    \/ \E r \in RatioThousandths : ProgressCallback(r)
    \/ Unmount

Spec == Init /\ [][Next]_vars

\* Format negotiation and file naming: every format, every host support matrix.
NextFormats ==
    \/ \E v \in FormatValues : SelectFormat(v)
    \/ StartClick
    \/ \E i \in 1..MaxStreams : AcquireFailed(i)
    \/ \E i \in 1..MaxStreams : Acquired(i)
    \/ \E r \in 1..MaxStreams : DataAvailable(r, 1)
    \/ stopRecording
    \/ \E r \in 1..MaxStreams : OnStop(r, 0)
    \/ \E i \in 1..MaxStreams : previewRecording(i)
    \/ \E i \in 1..MaxStreams : DownloadFromHistory(i)
    \/ DownloadFromPreview

SpecFormats == InitFormats /\ [][NextFormats]_vars

\* The operations of the store and of the conversion hook applied to any
\* argument: deleteRecording to any id, convertWebmToMp4 to a blob of any size.
IdRange == 1..(MaxStreams + MaxConversions)

ConvertSource(size) ==
    /\ mounted
    /\ conv.pc = "fetch"
    /\ size \in 0..MaxChunkSize
    /\ convertWebmToMp4(size)
    /\ UNCHANGED <<supported, streams, recorders, FS, engineLoaded, ffmpegRef, engineCalls,
                   overlap,
                   sessionVars, storeVars, convertingMp4, convertedMp4Url, mp4Duration, probes,
                   selectedFormat, mounted>>

InitOps == supported = MimeTypes /\ Start

NextOps ==
    \/ pendingStarts = <<>> /\ StartClick
    \/ \E i \in 1..MaxStreams : Acquired(i)
    \/ \E r \in 1..MaxStreams, size \in 0..MaxChunkSize : DataAvailable(r, size)
    \/ stopRecording
    \/ \E r \in 1..MaxStreams, size \in 0..MaxChunkSize : OnStop(r, size)
    \/ \E i \in 1..MaxStreams : previewRecording(i)
    \/ \E id \in IdRange : deleteRecordingId(id)
    \/ ConvertClick
    \/ \E size \in 0..MaxChunkSize : ConvertSource(size)
    \/ \E outcome \in {"rejected", "noMethods", "ok"} : ImportSettled(outcome)
    \/ \E ok \in BOOLEAN : LoadSettled(ok)
    \/ \E outcome \in {"ok", "failed", "failedPartial"} : RunSettled(outcome)
    \/ \E r \in RatioThousandths : ProgressCallback(r)

SpecOps == InitOps /\ [][NextOps]_vars

\* ------------------------------------------- the hook called while it runs
\* convertWebmToMp4 called by another caller of the hook while the call made by
\* handleConvertToMp4 is in flight: up to its first await.
OverlappingCall ==
    /\ mounted
    /\ overlap = "idle"
    /\ conv.pc \in {"import", "load", "run"}
    /\ overlap' = "import"
    /\ state' = InitialHookState
    /\ blobs' = Rerender(blobs, FALSE, convertedMp4Url, 0)
    /\ last' = Observe("overlapCall", "none", FALSE, {})
    /\ UNCHANGED <<supported, streams, recorders, FS, engineLoaded, ffmpegRef,
                   engineCalls, sessionVars, storeVars, convVars, selectedFormat,
                   mounted>>

\* The import awaited by the overlapping call settles: as in ImportSettled, the
\* engine is created if needed and load() awaited when it is not loaded yet.
OverlapImportSettled(ok) ==
    /\ mounted
    /\ overlap = "import"
    /\ ok \in BOOLEAN
    /\ IF ok
       THEN /\ ffmpegRef' = TRUE
            /\ engineCalls' = EngineCalled(engineCalls, ffmpegRef, engineLoaded)
            /\ overlap' = IF engineLoaded THEN "run" ELSE "load"
            /\ FS' = IF engineLoaded THEN WriteInput(FS) ELSE FS
            /\ last' = Observe("overlapEngine", "none", FALSE, {})
       ELSE /\ overlap' = "done"
            /\ last' = Observe("overlapFailed", "none", TRUE, {})
            /\ UNCHANGED <<ffmpegRef, engineCalls, FS>>
    /\ UNCHANGED <<supported, streams, recorders, blobs, engineLoaded, state,
                   sessionVars, storeVars, convVars, selectedFormat, mounted>>

\* The load() awaited by the overlapping call settles.
OverlapLoadSettled(ok) ==
    /\ mounted
    /\ overlap = "load"
    /\ ok \in BOOLEAN
    /\ IF ok
       THEN /\ engineLoaded' = TRUE
            /\ FS' = WriteInput(FS)
            /\ overlap' = "run"
            /\ last' = Observe("overlapRunning", "none", FALSE, {})
       ELSE /\ overlap' = "done"
            /\ last' = Observe("overlapFailed", "none", TRUE, {})
            /\ UNCHANGED <<engineLoaded, FS>>
    /\ UNCHANGED <<supported, streams, recorders, blobs, ffmpegRef, state, engineCalls,
                   sessionVars, storeVars, convVars, selectedFormat, mounted>>

\* The run awaited by the overlapping call settles; its result goes to its
\* caller, the hook state it sets is reset by the next render.
OverlapRunSettled(ok) ==
    /\ mounted
    /\ overlap = "run"
    /\ ok \in BOOLEAN
    /\ overlap' = "done"
    /\ state' = InitialHookState
    /\ IF ok
       THEN LET url == Len(blobs) + 1
                created == Append(blobs, [mime |-> MP4_GENERIC, size |-> 1,
                                          revokes |-> 0, source |-> 0])
            IN /\ FS' = ScratchAfterSuccess(FS \cup {"output.mp4"})
               /\ blobs' = Rerender(created, FALSE, convertedMp4Url, url)
               /\ last' = Observe("overlapConverted", "none", FALSE, {})
       ELSE /\ FS' = ScratchAfterFailure(FS)
            /\ blobs' = Rerender(blobs, FALSE, convertedMp4Url, 0)
            /\ last' = Observe("overlapFailed", "none", FALSE, {})
    /\ UNCHANGED <<supported, streams, recorders, engineLoaded, ffmpegRef, engineCalls,
                   sessionVars, storeVars, convVars, selectedFormat, mounted>>

\* The conversion hook with a second caller, after sessions recorded one after
\* the other.
NextEngine ==
    \/ pendingStarts = <<>> /\ StartClick
    \/ \E i \in 1..MaxStreams : Acquired(i)
    \/ stopRecording
    \/ \E r \in 1..MaxStreams, size \in 0..1 : OnStop(r, size)
    \/ ConvertClick
    \/ FetchSettled
    \/ \E outcome \in {"rejected", "noMethods", "ok"} : ImportSettled(outcome)
    \/ \E ok \in BOOLEAN : LoadSettled(ok)
    \/ \E outcome \in {"ok", "failed", "failedPartial"} : RunSettled(outcome)
    \/ OverlappingCall
    \/ \E ok \in BOOLEAN : OverlapImportSettled(ok)
    \/ \E ok \in BOOLEAN : OverlapLoadSettled(ok)
    \/ \E ok \in BOOLEAN : OverlapRunSettled(ok)

SpecEngine == InitOps /\ [][NextEngine]_vars

\* A conversion and the duration check of its result, after sessions recorded
\* one after the other.
NextDuration ==
    \/ \E v \in FormatKinds : SelectFormat(v)
    \/ pendingStarts = <<>> /\ StartClick
    \/ \E i \in 1..MaxStreams : Acquired(i)
    \/ stopRecording
    \/ \E r \in 1..MaxStreams, size \in 0..1 : OnStop(r, size)
    \/ ConvertClick
    \/ FetchSettled
    \/ \E outcome \in {"rejected", "noMethods", "ok"} : ImportSettled(outcome)
    \/ \E ok \in BOOLEAN : LoadSettled(ok)
    \/ \E outcome \in {"ok", "failed", "failedPartial"} : RunSettled(outcome)
    \/ \E url \in IdRange, outcome \in MetadataOutcomes : MetadataSettled(url, outcome)

SpecDuration == InitOps /\ [][NextDuration]_vars

\* -------------------------------------- earlier version: format negotiation
MP4_AVC == "video/mp4; codecs=\"avc1.42E01E\""

\* The mime-type strings the earlier code passes to isTypeSupported.
MimeTypesEarlier == MimeTypes \cup {MP4_AVC}

\* trueMp4Supported of the earlier version: any of three mp4 strings.
trueMp4SupportedEarlier ==
    \/ MP4_AVC_AAC \in supported
    \/ MP4_AVC \in supported
    \/ MP4_GENERIC \in supported

\* useMp4 = formatOption.value === 'mp4-h264' && trueMp4Supported()
useMp4(formatValue) == formatValue = "mp4-h264" /\ trueMp4SupportedEarlier

\* startRecording of the earlier version: "choose proper mimeType".
ChooseMimeTypeEarlier(formatValue) ==
    IF useMp4(formatValue) THEN MP4_AVC_AAC
    ELSE IF WEBM_VP9 \in supported THEN WEBM_VP9
    ELSE IF WEBM_VP8 \in supported THEN WEBM_VP8
    ELSE WEBM_GENERIC

\* getDisplayMedia resolves in the earlier version: the rest of startRecording.
AcquiredEarlier(i) ==
    /\ mounted
    /\ i \in DOMAIN pendingStarts
    /\ LET formatValue == pendingStarts[i]
           sid == Len(streams) + 1
           mimeType == ChooseMimeTypeEarlier(formatValue)
           mp4Warning == IF formatValue = "mp4-h264" /\ ~trueMp4SupportedEarlier
                         THEN {"Your browser does not support MP4/H.264 encoding"}
                         ELSE {}
           started == IF useMp4(formatValue) THEN "Recording started in MP4 format"
                      ELSE "Recording started in WebM format"
       IN /\ pendingStarts' = RemoveAt(pendingStarts, i)
          /\ stream' = sid
          /\ state' = InitialHookState
          /\ blobs' = Rerender(blobs, FALSE, convertedMp4Url, state.outputUrl)
          /\ IF mimeType \in supported
             THEN /\ streams' = Append(streams, 0)
                  /\ recorders' = Append(recorders,
                        [state |-> "recording", stream |-> sid, mimeType |-> mimeType,
                         formatValue |-> formatValue, stopQueued |-> FALSE,
                         delivered |-> 0])
                  /\ mediaRecorder' = Len(recorders) + 1
                  /\ recordingChunks' = <<>>
                  /\ recording' = TRUE
                  /\ last' = [Observe("started", "start", FALSE, mp4Warning \cup {started})
                                EXCEPT !.mime = mimeType, !.requested = formatValue]
             ELSE /\ streams' = ReleaseOnStartFailure(Append(streams, 0), sid)
                  /\ last' = [Observe("startFailed", "new", TRUE,
                                      mp4Warning \cup {"Failed to start recording"})
                                EXCEPT !.mime = mimeType, !.requested = formatValue]
                  /\ UNCHANGED <<recorders, mediaRecorder, recordingChunks, recording>>
    /\ UNCHANGED <<supported, FS, engineLoaded, ffmpegRef, engineCalls, overlap, paused,
                   storeVars,
                   convVars, selectedFormat, mounted>>

InitEarlier == supported \in SUBSET MimeTypesEarlier /\ StartWith("mp4-h264")

NextEarlier ==
    \/ \E v \in FormatKinds : SelectFormat(v)
    \/ StartClick
    \/ \E i \in 1..MaxStreams : AcquireFailed(i)
    \/ \E i \in 1..MaxStreams : AcquiredEarlier(i)

SpecEarlier == InitEarlier /\ [][NextEarlier]_vars

\* The history store over MaxSessions sessions recorded one after the other,
\* with deletions and previews in between.
NextStore ==
    \/ pendingStarts = <<>> /\ StartClickWithin(MaxSessions)
    \/ \E i \in 1..MaxSessions : Acquired(i)
    \/ stopRecording
    \/ \E r \in 1..MaxSessions, size \in 0..1 : OnStop(r, size)
    \/ \E i \in 1..MaxSessions : previewRecording(i)
    \/ \E i \in 1..MaxSessions : deleteRecording(i)

SpecStore == InitOps /\ [][NextStore]_vars

\* ------------------------------------------------------------------ claims
\* C1: every file name offered for download, from a history item or from the
\* preview tab's Download button, carries the extension of the bytes actually
\* produced, also after the selected format changed or another recording is
\* previewed.
C1_DownloadNameMatchesBytes ==
    (last.op = "download" /\ last.fileExt # "none") => last.fileExt = last.bytesExt

\* C2: when the session fell back from the requested format, the extension
\* stored on the new history entry is the extension of the mime type handed to
\* the encoder, not the requested format's.
C2_FallbackExtensionIsAchieved ==
    ( /\ last.op = "finalized"
      /\ "Recording ready for preview!" \in last.toasts
      /\ FormatOption(last.requested).mimeType # last.mime )
    => Head(recordings).format = BytesExtension(last.mime)

C2_FallbackEntryStored ==
    /\ last.op = "finalized"
    /\ "Recording ready for preview!" \in last.toasts
    /\ FormatOption(last.requested).extension = "mkv"
    /\ last.mime = WEBM_VP8
    /\ Head(recordings).format = "webm"

\* C3: the mime type start() passes to the encoder is one the host reports as
\* supported at that moment.
C3_EncoderMimeSupported ==
    (last.op \in {"started", "startFailed"} /\ last.mime # "none")
    => last.mime \in supported

\* C4: a recording's handle is released only when the recording is removed or
\* the store is torn down, so every listed recording has an unreleased handle.
C4_ListedHandlesUnreleased ==
    mounted => \A i \in DOMAIN recordings : blobs[recordings[i].url].revokes = 0

\* C5: once a conversion job has returned (success, failure or abandoned),
\* neither input.webm nor output.mp4 remains in the engine's scratch space.
C5_ScratchEmptyAfterJob ==
    conv.pc = "idle" => FS \cap {"input.webm", "output.mp4"} = {}

ActiveEncoders == {r \in DOMAIN recorders : recorders[r].state # "inactive"}

C7_SingleSession == Cardinality(ActiveEncoders) <= 1

\* C8: when start() fails after it began, the failure is reported and the
\* session holds no capture stream: the stream acquired by the failed attempt
\* has its tracks stopped and is not the tracked stream.
C8_FailedStartReleasesStream ==
    last.op = "startFailed"
    => /\ "Failed to start recording" \in last.toasts
       /\ last.enc = "new" => /\ streams[Len(streams)] > 0
                              /\ stream # Len(streams)

\* C9: the capture stream of every session that reached Capturing is released
\* exactly once when the session is over: after its stop event, or when the
\* component is torn down.
C9_StreamReleasedOnce ==
    \A r \in DOMAIN recorders :
        LET rec == recorders[r]
            over == ~mounted \/ (rec.state = "inactive" /\ ~rec.stopQueued)
        IN /\ streams[rec.stream] <= 1
           /\ over => streams[rec.stream] = 1

\* C10: pause() in any state other than Capturing, and resume() in any state
\* other than Paused, is a no-op: the state is unchanged, no encoder operation
\* is invoked, no error is raised and nothing is notified.
SessionState ==
    IF ~recording THEN "Idle"
    ELSE IF mediaRecorder # 0 /\ recorders[mediaRecorder].state = "inactive" THEN "Finalizing"
    ELSE IF paused THEN "Paused"
    ELSE "Capturing"

C10_PauseResumeElsewhereNoOp ==
    [][ ( /\ last' # last
          /\ \/ last'.op = "pause" /\ SessionState # "Capturing"
             \/ last'.op = "resume" /\ SessionState # "Paused" )
        => ( /\ last'.enc = "none"
             /\ ~last'.threw
             /\ last'.toasts = {}
             /\ UNCHANGED <<recorders, recording, paused>> ) ]_vars

\* C11: a session that is started, receives chunks of sizes s1..sn (n >= 1) and
\* is then stopped yields exactly one recording, whose blob has s1+...+sn
\* bytes, and the session's states follow each other in the order Idle,
\* Capturing (or Paused), Finalizing, Stopped.
SessionOrder ==
    { <<"Idle", "Capturing">>, <<"Capturing", "Paused">>, <<"Paused", "Capturing">>,
      <<"Capturing", "Finalizing">>, <<"Paused", "Finalizing">>, <<"Finalizing", "Idle">> }

C11_OneArtifactOfSummedSize ==
    [][ /\ SessionState' # SessionState => <<SessionState, SessionState'>> \in SessionOrder
        /\ \A r \in DOMAIN recorders :
             ( /\ recorders[r].stopQueued
               /\ ~recorders'[r].stopQueued
               /\ last'.delivered > 0 )
             => ( /\ Len(recordings') = Len(recordings) + 1
                  /\ Len(blobs') = Len(blobs) + 1
                  /\ blobs'[Head(recordings').url].size = last'.delivered ) ]_vars

\* C12: stopping a session to which no non-empty chunk was delivered completes
\* the finalization (not recording, not paused, stream released) and reports
\* the empty capture: no recording is added, no object URL is created and the
\* preview is not changed.
C12_EmptyCaptureAddsNothing ==
    [][ \A r \in DOMAIN recorders :
          ( /\ recorders[r].stopQueued
            /\ ~recorders'[r].stopQueued
            /\ last'.delivered = 0 )
          => ( /\ ~recording' /\ ~paused' /\ stream' = 0
               /\ streams'[recorders[r].stream] = 1
               /\ "No recording data available" \in last'.toasts
               /\ Len(blobs') = Len(blobs)
               /\ UNCHANGED <<recordings, recordedVideoUrl>> ) ]_vars

\* C13: deleteRecording(id) for an id in the store releases exactly one object
\* URL, that of the removed recording and once; afterwards that recording is
\* absent from the list and every other recording and its URL are unchanged.
C13_DeleteReleasesOneHandle ==
    [][ (last'.op = "delete" /\ FindId(recordings, last'.id) # 0)
        => LET i == FindId(recordings, last'.id)
           IN /\ recordings' = RemoveAt(recordings, i)
              /\ blobs' = [blobs EXCEPT ![recordings[i].url].revokes = @ + 1] ]_vars

\* C14: deleteRecording(id) for an id that is not in the store is a no-op: the
\* list is unchanged, no object URL is released and no error is raised.
C14_DeleteAbsentIsNoOp ==
    [][ (last'.op = "delete" /\ FindId(recordings, last'.id) = 0)
        => ( /\ recordings' = recordings
             /\ blobs' = blobs
             /\ ~last'.threw ) ]_vars

\* C15: every object URL (of a recording or of a converted MP4) is released at
\* most once, by a single owner: the store's cleanup effect, deleteRecording,
\* the converted-URL cleanup effect and the hook's cleanUp never release the
\* same URL twice between them.
C15_HandleReleasedAtMostOnce ==
    \A u \in DOMAIN blobs : blobs[u].revokes <= 1

\* C16: within one conversion job the progress values the hook stores are
\* non-decreasing integers in 0..100, whatever ratios the engine reports and
\* whether the job succeeds or fails.
C16_ProgressMonotoneInRange ==
    [][ (conv.pc = "run" /\ last'.op \in {"progress", "converted", "convertFailed"})
        => ( /\ last'.progress \in 0..100
             /\ last'.progress >= conv.progress ) ]_vars

\* C17: the result of a conversion job that was abandoned before it completed
\* never surfaces.  A job is abandoned when the preview moves to another
\* recording while it is in flight: that re-render cleans up the converted-URL
\* effect, which calls the hook's cleanUp.  When the engine call of such a job
\* completes, the displayed converted MP4 is not set from it.
JobAbandoned ==
    conv.pc \in {"import", "load", "run"} /\ recordedVideoUrl # conv.url

C17_AbandonedResultNeverSurfaces ==
    [][ (JobAbandoned /\ conv'.pc = "idle")
        => ( /\ convertedMp4Url' = convertedMp4Url
             /\ last'.op # "converted" ) ]_vars

\* C18: when the engine module cannot be imported or the engine fails to
\* load, the job ends in a failed terminal state: the hook's loading flag and
\* the component's converting flag are both false and the failure is reported;
\* the pipeline is not left stuck.
C18_EngineFailureEndsJob ==
    last.op = "engineFailed"
    => ( /\ conv.pc = "idle"
         /\ ~convertingMp4
         /\ ~state.loading
         /\ ~last.threw
         /\ "MP4 conversion failed" \in last.toasts )

\* C19: a conversion request whose source has zero bytes is rejected before
\* the engine is loaded or run and before a scratch entry is written.
C19_EmptySourceRejected ==
    conv.pc \in {"load", "run"} => conv.size > 0

\* C20: a failed conversion (engine methods missing, run or read-back error)
\* changes only the conversion job's state: the list of recordings and the
\* preview are unchanged and the object URLs of the source and of every listed
\* recording are as released or unreleased as before.
C20_FailedConversionKeepsSource ==
    [][ (conv.pc \in {"import", "run"} /\ last'.op = "convertFailed")
        => ( /\ UNCHANGED <<recordings, recordedVideoUrl>>
             /\ blobs'[conv.url] = blobs[conv.url]
             /\ \A i \in DOMAIN recordings :
                    blobs'[recordings[i].url] = blobs[recordings[i].url] ) ]_vars

C20_SourceUsableAfterFailure ==
    /\ last.op = "convertFailed"
    /\ conv.pc = "idle"
    /\ "input.webm" \in FS
    /\ recordedVideoUrl # 0
    /\ \E i \in DOMAIN recordings : recordings[i].url = recordedVideoUrl
    /\ blobs[recordedVideoUrl].revokes = 0

\* C21: once the component is torn down, every object URL still outstanding
\* has been released: that of every recording in the store, of the current
\* preview and of the converted MP4.
C21_TeardownReleasesHandles ==
    ~mounted
    => ( /\ \A i \in DOMAIN recordings : IsRevoked(recordings[i].url)
         /\ recordedVideoUrl # 0 => IsRevoked(recordedVideoUrl)
         /\ convertedMp4Url # 0 => IsRevoked(convertedMp4Url) )

C21_TornDownWithHandles ==
    /\ ~mounted
    /\ last.op = "unmount"
    /\ Len(recordings) = 2
    /\ recordedVideoUrl = recordings[1].url
    /\ convertedMp4Url # 0

\* C22: the history list is always ordered most recent first: whatever
\* recordings were finalized and deleted, an entry nearer the head was created
\* after every entry behind it.
C22_HistoryMostRecentFirst ==
    \A i, j \in DOMAIN recordings : i < j => recordings[i].id > recordings[j].id

C22_OrderKeptAfterDeletion ==
    /\ last.op = "delete"
    /\ Len(recordings) = 2
    /\ recordings[1].id = 3
    /\ recordings[2].id = 1

\* C23: a start that treats the mp4-h264 request as truly achievable hands the
\* encoder an mp4 codec string the host has confirmed: support for some other
\* mp4 variant alone never makes the request a true match.
C23_Mp4OnlyWithConfirmedCodec ==
    ( /\ last.op \in {"started", "startFailed"}
      /\ last.requested = "mp4-h264"
      /\ MimeIncludes(last.mime, "mp4") )
    => last.mime \in supported

\* C24: when an audio-only format (wav, mp3, ogg) is requested, the mime type
\* chosen for the encoder is an audio-capable container type, never one of the
\* video container types.
C24_AudioRequestGetsAudioContainer ==
    ( /\ last.op \in {"started", "startFailed"}
      /\ last.enc \in {"start", "new"}
      /\ IsAudioOnlyValue(last.requested) )
    => ~(MimeIncludes(last.mime, "webm") \/ MimeIncludes(last.mime, "mp4"))

\* C25: over any sequence of conversion requests, overlapping ones included,
\* the codec engine is created at most once and its load() is called at most
\* once.
C25_EngineLoadedOnce ==
    /\ engineCalls.create <= 1
    /\ engineCalls.load <= 1

\* C26: whenever a conversion has succeeded and the duration detected for its
\* MP4 is zero, the duration notice is shown together with the result: the
\* converted MP4 is still offered, and no failure is reported.
C26_AdvisoryWithResult ==
    (convertedMp4Url # 0 /\ mp4Duration # <<>> /\ mp4Duration[1] < 1)
    => ( /\ DurationNoticeShown
         /\ ConvertedPanelShown
         /\ ~state.error )

\* C27: while a session is Capturing or Paused the chunk buffer only grows by
\* appending at its end: whatever happens, the chunks it held are still there,
\* in the same order and unchanged, until finalization.
C27_BufferAppendOnly ==
    [][ (SessionState = "Capturing" \/ SessionState = "Paused")
        => ( /\ Len(recordingChunks') >= Len(recordingChunks)
             /\ SubSeq(recordingChunks', 1, Len(recordingChunks)) = recordingChunks ) ]_vars

\* C28: the converted MP4 displayed was produced from the recording that is
\* being previewed.
C28_ConvertedFromPreviewed ==
    convertedMp4Url # 0 => blobs[convertedMp4Url].source = recordedVideoUrl

\* C29: while a converted MP4 is displayed, its object URL has not been
\* revoked.
C29_DisplayedMp4Unreleased ==
    convertedMp4Url # 0 => ~IsRevoked(convertedMp4Url)

\* C30: paused implies recording in every state, and a completed finalization
\* leaves both flags cleared and no stream reference.
C30_PausedImpliesRecording ==
    /\ paused => recording
    /\ last.op = "finalized" => (~recording /\ ~paused /\ stream = 0)

C30_PausedWhileRecording ==
    /\ paused
    /\ recording
    /\ mediaRecorder # 0
    /\ recorders[mediaRecorder].stopQueued

====
